---- MODULE Spec2Model ----
(***************************************************************************)
(* Asset registry of projects/api: content-addressed asset identifiers     *)
(* (utils.generate_asset_id), the in-memory local store, the Algorand      *)
(* notary (AlgorandStorage.record_asset / create_asset) and the hybrid     *)
(* coordinator (HybridAssetStorage.save_and_link) behind POST /upload.     *)
(*                                                                         *)
(* Conventions.  Python str values are TLA+ strings.  Optional[T] is a     *)
(* sequence of length at most one: None is <<>>, a present value x is      *)
(* <<x>>.  A float is its value in units of 10^-4; a datetime is a record  *)
(* of its date and time parts.                                             *)
(***************************************************************************)
EXTENDS Integers, Sequences, FiniteSets, TLC

VARIABLES
    storage,       \* InMemoryAssetStorage._storage: the dict's items, in dict order
    links,         \* InMemoryAssetStorage._links: asset id -> Optional[txid]
    algod_client,  \* AlgorandStorage.algod_client: None or the connected client
    ledger,        \* the asset-creation transactions the ledger has accepted
    call,          \* per caller: the position of its POST /upload in save_and_link
    response,      \* the result of the last finished operation
    saved,         \* history: the asset ids ever passed to InMemoryAssetStorage.save
    reqA, reqB,    \* the two requests given to generate_asset_id (SpecDerive)
    idA, idB,      \* Optional[AssetId]: what generate_asset_id returned for them
    id_string,     \* the str given to AssetId.from_string (SpecAssetId)
    id_object,     \* Optional: what AssetId.from_string made of it
    files,         \* the storage directory of FileSystemAssetStorage: name -> text
    fs_instance,   \* what FileSystemAssetStorage() gave: the instance or the error
    result,        \* the last call on the two local stores and what each returned
    record_request, \* Optional: the request given to record_asset (SpecRecord)
    record_txn,    \* Optional: the note and the transaction record_asset built
    coordinators,  \* the algod_client of each HybridAssetStorage constructed
    current        \* the coordinator the calls are made through

vars == <<storage, links, algod_client, ledger, call, response, saved,
          reqA, reqB, idA, idB, id_string, id_object, files, fs_instance, result,
          record_request, record_txn, coordinators, current>>

assetid_vars == <<id_string, id_object>>
fs_vars == <<files, fs_instance, result>>
notary_vars == <<record_request, record_txn>>
shared_vars == <<coordinators, current>>

None == <<>>
Some(x) == <<x>>

-----------------------------------------------------------------------------
(* Bounds and input domains.                                               *)

\* Ledger transactions accepted over a run.
MaxLedger == 2

\* Callers of POST /upload.
NumCallers == 1

\* HybridAssetStorage objects constructed on the default store.
NumCoordinators == 2

Callers == 1..NumCallers

Descriptions == {"First test asset", "Second test asset"}
Contents == {"Content of first asset", "Content of second asset"}
Latitudes == {407128, 377749}
Longitudes == {-740060, -1224194}
Timestamps == {[date |-> "2024-01-01", time |-> "12:00:00"],
               [date |-> "2024-01-02", time |-> "15:30:00"]}
Creators == {"creator1", "creator2"}
Publishers == {"publisher1", "publisher2"}

GPSCoordinates == [latitude : Latitudes, longitude : Longitudes]

AssetUploadRequest ==
    [description : Descriptions, content : Contents, location : GPSCoordinates,
     timestamp : Timestamps, creator : Creators, publisher : Publishers]

\* The requests uploaded in Spec: every description and content at one
\* location, timestamp, creator and publisher.
UploadRequests ==
    {r \in AssetUploadRequest :
        /\ r.location = [latitude |-> 407128, longitude |-> -740060]
        /\ r.timestamp = [date |-> "2024-01-01", time |-> "12:00:00"]
        /\ r.creator = "creator1"
        /\ r.publisher = "publisher1"}

-----------------------------------------------------------------------------
(* Conversions: datetime.isoformat, json.dumps, sha256, hexdigest.         *)

\* datetime.isoformat(): date, "T", time.
isoformat(ts) == ts.date \o "T" \o ts.time

\* json.dumps of a str: the text in double quotes.
JsonStr(s) == "\"" \o s \o "\""

\* json.dumps of a float: its decimal text (here of the scaled value).
JsonNum(x) == ToString(x)

\* The keys json.dumps(sort_keys=True) can meet, in lexicographic order.
SortedKeys == <<"content", "creator", "description", "location",
                "publisher", "timestamp">>

RECURSIVE Concat(_)
Concat(ss) == IF ss = <<>> THEN <<>> ELSE Head(ss) \o Concat(Tail(ss))

\* json.dumps(d, sort_keys=True) of the dict hashed by generate_asset_id: the
\* key/value texts in sorted key order, the nested location dict in place.
json_dumps_sorted(d) ==
    LET keys == SelectSeq(SortedKeys, LAMBDA k : k \in DOMAIN d)
        item(k) ==
            IF k = "location"
            THEN << <<"location", "{">>,
                    <<"latitude", JsonNum(d[k].latitude)>>,
                    <<"longitude", JsonNum(d[k].longitude)>>,
                    <<"location", "}">> >>
            ELSE << <<k, JsonStr(d[k])>> >>
    IN Concat([i \in 1..Len(keys) |-> item(keys[i])])

\* data_to_hash with the description hashed as well.
data_to_hash_with_description(asset) ==
    [description |-> asset.description,
     content   |-> asset.content,
     location  |-> [latitude |-> asset.location.latitude,
                    longitude |-> asset.location.longitude],
     timestamp |-> isoformat(asset.timestamp),
     creator   |-> asset.creator,
     publisher |-> asset.publisher]

\* data_to_hash with the content left out.
data_to_hash_without_content(asset) ==
    [location  |-> [latitude |-> asset.location.latitude,
                    longitude |-> asset.location.longitude],
     timestamp |-> isoformat(asset.timestamp),
     creator   |-> asset.creator,
     publisher |-> asset.publisher]

\* data_to_hash with the publisher written where the creator belongs.
data_to_hash_publisher_twice(asset) ==
    [content   |-> asset.content,
     location  |-> [latitude |-> asset.location.latitude,
                    longitude |-> asset.location.longitude],
     timestamp |-> isoformat(asset.timestamp),
     creator   |-> asset.publisher,
     publisher |-> asset.publisher]

\* The dict generate_asset_id hashes: description is not a key of it.
data_to_hash(asset) ==
    [content   |-> asset.content,
     location  |-> [latitude |-> asset.location.latitude,
                    longitude |-> asset.location.longitude],
     timestamp |-> isoformat(asset.timestamp),
     creator   |-> asset.creator,
     publisher |-> asset.publisher]

HashString(asset) == json_dumps_sorted(data_to_hash(asset))

-----------------------------------------------------------------------------------------------------------------------------------------------------
(* SHA-256, as an ideal hash: an injection from the messages the program   *)
(* hashes to 32-byte digests.  The tokens of the messages are enumerated;  *)
(* the digest's leading bytes encode the message's tokens one by one, so   *)
(* two messages have the same digest only if they are the same message.    *)

DigestSize == 32

HexDigits == <<"0", "1", "2", "3", "4", "5", "6", "7",
               "8", "9", "a", "b", "c", "d", "e", "f">>

RECURSIVE SetToSeq(_)
SetToSeq(S) ==
    IF S = {} THEN <<>>
    ELSE LET e == CHOOSE e \in S : TRUE IN <<e>> \o SetToSeq(S \ {e})

\* The tokens of a set of messages.
Tokens(messages) == UNION {{m[i] : i \in 1..Len(m)} : m \in messages}

\* Every message generate_asset_id hashes, and their tokens enumerated.
HashedMessages == {HashString(r) : r \in AssetUploadRequest}

TokenOrder == SetToSeq(Tokens(HashedMessages))

TokenCode(order, t) == CHOOSE i \in 1..Len(order) : order[i] = t

\* hashlib.sha256(m).digest() for a message m over the tokens `order`: 32
\* bytes, the j-th fixed by the j-th token of m, the rest by m's length.
sha256_digest(order, m) ==
    [j \in 1..DigestSize |->
        IF j <= Len(m) THEN (TokenCode(order, m[j]) * 17 + 7 * j) % 256
        ELSE (Len(m) * 11 + 37 * j) % 256]

\* HexByte without the leading zero of a byte below 16.
HexByte_unpadded(b) ==
    IF b < 16 THEN HexDigits[b + 1]
    ELSE HexDigits[(b \div 16) + 1] \o HexDigits[(b % 16) + 1]

\* One byte as two lowercase hex characters.
HexByte(b) == HexDigits[(b \div 16) + 1] \o HexDigits[(b % 16) + 1]

RECURSIVE JoinStrings(_)
JoinStrings(ss) == IF ss = <<>> THEN "" ELSE Head(ss) \o JoinStrings(Tail(ss))

\* .hexdigest(): the digest's bytes in hex.
hexdigest(d) == JoinStrings([j \in 1..Len(d) |-> HexByte(d[j])])

-----------------------------------------------------------------------------
(* models.AssetId and utils.generate_asset_id.                             *)

AssetIdLength == 64

HexChars == {HexDigits[i] : i \in 1..16}

\* The pattern matched without regard to case.
AssetIdValid_any_case(s) ==
    /\ Len(s) = AssetIdLength
    /\ \A i \in 1..Len(s) :
          SubSeq(s, i, i) \in HexChars \cup {"A", "B", "C", "D", "E", "F"}

\* Field(min_length=64, max_length=64, pattern=r'^[a-f0-9]{64}$').
AssetIdValid(s) ==
    /\ Len(s) = AssetIdLength
    /\ \A i \in 1..Len(s) : SubSeq(s, i, i) \in HexChars

\* AssetId.from_string: the AssetId, or pydantic's ValidationError.
AssetId_from_string(s) ==
    IF AssetIdValid(s) THEN [status |-> "ok", value |-> s]
    ELSE [status |-> "ValidationError", value |-> s]

\* generate_asset_id's body: hash_string, hash_value, AssetId.from_string.
derive_asset_id(asset) ==
    LET hash_string == HashString(asset)
        hash_value == hexdigest(sha256_digest(TokenOrder, hash_string))
    IN AssetId_from_string(hash_value)

\* The results of generate_asset_id, tabulated once for every request (the
\* comparison makes TLC build the table instead of re-evaluating the body).
AssetIdTable ==
    LET table == [asset \in AssetUploadRequest |-> derive_asset_id(asset)]
    IN IF table = table THEN table ELSE table

generate_asset_id(asset) == AssetIdTable[asset]

-----------------------------------------------------------------------------
(* storage.InMemoryAssetStorage.  _storage is a dict: its items in         *)
(* insertion order, a key assigned again keeps its place.                  *)

\* Asset with creator and publisher exchanged.
Asset_swapped(asset_request, asset_id) ==
    [asset_id    |-> asset_id,
     description |-> asset_request.description,
     content     |-> asset_request.content,
     location    |-> asset_request.location,
     timestamp   |-> asset_request.timestamp,
     creator     |-> asset_request.publisher,
     publisher   |-> asset_request.creator]

Asset(asset_request, asset_id) ==
    [asset_id    |-> asset_id,
     description |-> asset_request.description,
     content     |-> asset_request.content,
     location    |-> asset_request.location,
     timestamp   |-> asset_request.timestamp,
     creator     |-> asset_request.creator,
     publisher   |-> asset_request.publisher]

\* A list used where the dict is: every assignment appends.
DictSet_appends(items, key, value) == Append(items, <<key, value>>)

\* d[key] = value on a dict held as its sequence of <<key, value>> items.
DictSet(items, key, value) ==
    IF \E i \in 1..Len(items) : items[i][1] = key
    THEN [i \in 1..Len(items) |->
            IF items[i][1] = key THEN <<key, value>> ELSE items[i]]
    ELSE Append(items, <<key, value>>)

\* d.get(key): Optional.
DictGet(items, key) ==
    IF \E i \in 1..Len(items) : items[i][1] = key
    THEN Some(items[CHOOSE i \in 1..Len(items) : items[i][1] = key][2])
    ELSE None

DictKeys(items) == {items[i][1] : i \in 1..Len(items)}

\* save as setdefault: a record already stored is kept.
InMemory_save_setdefault(st, asset_request, asset_id) ==
    IF DictGet(st, asset_id) # None THEN st
    ELSE DictSet(st, asset_id, Asset(asset_request, asset_id))

\* save: self._storage[asset_id] = Asset(...).
InMemory_save(st, asset_request, asset_id) ==
    DictSet(st, asset_id, Asset(asset_request, asset_id))

\* list: one AssetSummary per value of the dict, in dict order.
InMemory_list(st) ==
    [i \in 1..Len(st) |->
        [asset_id |-> st[i][2].asset_id, description |-> st[i][2].description]]

\* retrieve falling back to the most recent asset when the key is missing.
InMemory_retrieve_latest(st, asset_id) ==
    IF DictGet(st, asset_id) # None THEN DictGet(st, asset_id)
    ELSE IF st = <<>> THEN None ELSE Some(st[Len(st)][2])

\* retrieve: self._storage.get(asset_id).
InMemory_retrieve(st, asset_id) == DictGet(st, asset_id)

\* link_transaction: self._links[asset_id] = transaction_id.
InMemory_link_transaction(lk, asset_id, transaction_id) ==
    [k \in DOMAIN lk \cup {asset_id} |->
        IF k = asset_id THEN transaction_id ELSE lk[k]]

-----------------------------------------------------------------------------
(* storage.AssetStorage, the abstract base of the two local stores.        *)

\* The methods AssetStorage declares with @abstractmethod, and the methods
\* each subclass defines.
AbstractMethods == {"save", "list", "retrieve", "link_transaction"}
InMemoryMethods == {"save", "list", "retrieve", "link_transaction"}
FileSystemMethods == {"save", "list", "retrieve"}

\* cls(): ABCMeta raises TypeError for a class that leaves an abstract
\* method undefined.
Instantiate(methods) ==
    IF AbstractMethods \subseteq methods THEN "instance" ELSE "TypeError"

\* What a call returns or raises.
Returned(value) == [raised |-> "none", value |-> value]
Raised(exception) == [raised |-> exception, value |-> None]

\* InMemoryAssetStorage.save ends without a return statement.
InMemory_save_result(asset_id) == Returned(None)

-----------------------------------------------------------------------------
(* storage.FileSystemAssetStorage.  The directory is a function from file  *)
(* names to file texts.  A text is the JSON document json.load reads from  *)
(* it (json.dump followed by json.load gives back the dict of str, float   *)
(* and dict values that was written): an object as its members in order,   *)
(* or an array, or text that is no JSON.                                   *)

JsonObject(items) == [text |-> "object", items |-> items]
JsonArray == [text |-> "array", items |-> <<>>]
NotJson == [text |-> "invalid", items |-> <<>>]

\* _get_asset_path, within storage_dir.
FileName(asset_id) == asset_id \o ".json"

\* s.endswith(suffix)
EndsWith(s, suffix) ==
    /\ Len(s) >= Len(suffix)
    /\ SubSeq(s, Len(s) - Len(suffix) + 1, Len(s)) = suffix

\* save's asset_data dict.
asset_data(asset) ==
    << <<"asset_id", asset.asset_id>>,
       <<"description", asset.description>>,
       <<"content", asset.content>>,
       <<"location", << <<"latitude", asset.location.latitude>>,
                        <<"longitude", asset.location.longitude>> >> >>,
       <<"timestamp", isoformat(asset.timestamp)>>,
       <<"creator", asset.creator>>,
       <<"publisher", asset.publisher>> >>

\* save: open(asset_path, 'w'), json.dump(asset_data).
FileSystem_save(fs, asset_request, asset_id) ==
    [name \in DOMAIN fs \cup {FileName(asset_id)} |->
        IF name = FileName(asset_id)
        THEN JsonObject(asset_data(Asset(asset_request, asset_id)))
        ELSE fs[name]]

\* save: return asset_id.
FileSystem_save_result(asset_id) == Returned(Some(asset_id))

Digits == {"0", "1", "2", "3", "4", "5", "6", "7", "8", "9"}

\* datetime.fromisoformat on YYYY-MM-DDTHH:MM:SS, the form isoformat()
\* writes; a string of another length or with other characters at these
\* places is a ValueError.
fromisoformat(s) ==
    IF /\ Len(s) = 19
       /\ \A i \in {1, 2, 3, 4, 6, 7, 9, 10, 12, 13, 15, 16, 18, 19} :
             SubSeq(s, i, i) \in Digits
       /\ SubSeq(s, 5, 5) = "-" /\ SubSeq(s, 8, 8) = "-"
       /\ SubSeq(s, 11, 11) = "T"
       /\ SubSeq(s, 14, 14) = ":" /\ SubSeq(s, 17, 17) = ":"
    THEN Returned(Some([date |-> SubSeq(s, 1, 10), time |-> SubSeq(s, 12, 19)]))
    ELSE Raised("ValueError")

\* The try block of list for one file: json.load, then
\* AssetSummary(asset_id=AssetId.from_string(asset_data['asset_id']),
\*              description=asset_data['description']).
FileSystem_list_entry(doc) ==
    LET asset_id == DictGet(doc.items, "asset_id")
        description == DictGet(doc.items, "description")
    IN IF doc.text = "invalid" THEN Raised("JSONDecodeError")
       ELSE IF doc.text # "object" THEN Raised("TypeError")
       ELSE IF asset_id = None THEN Raised("KeyError")
       ELSE IF AssetId_from_string(asset_id[1]).status # "ok"
            THEN Raised("ValidationError")
       ELSE IF description = None THEN Raised("KeyError")
       ELSE Returned(Some([asset_id |-> asset_id[1],
                           description |-> description[1]]))

\* except (json.JSONDecodeError, KeyError, IOError): continue
ListCaught == {"JSONDecodeError", "KeyError", "IOError"}

\* list's loop over os.listdir, the names in the order listdir gave them.
RECURSIVE FileSystem_list_from(_, _, _)
FileSystem_list_from(fs, order, assets) ==
    IF order = <<>> THEN Returned(assets)
    ELSE LET filename == Head(order)
             entry == FileSystem_list_entry(fs[filename])
         IN IF ~EndsWith(filename, ".json")
            THEN FileSystem_list_from(fs, Tail(order), assets)
            ELSE IF entry.raised = "none"
            THEN FileSystem_list_from(fs, Tail(order),
                                      Append(assets, entry.value[1]))
            ELSE IF entry.raised \in ListCaught
            THEN FileSystem_list_from(fs, Tail(order), assets)
            ELSE [raised |-> entry.raised, value |-> <<>>]

FileSystem_list(fs, order) == FileSystem_list_from(fs, order, <<>>)

\* os.listdir returns the names in arbitrary order.
ListdirOrders(fs) ==
    {order \in [1..Cardinality(DOMAIN fs) -> DOMAIN fs] :
        \A i, j \in DOMAIN order : i # j => order[i] # order[j]}

\* The try block of retrieve: open, json.load, then Asset(...) with its
\* arguments evaluated in the order written.
FileSystem_retrieve_try(fs, asset_id) ==
    IF FileName(asset_id) \notin DOMAIN fs THEN Raised("FileNotFoundError")
    ELSE
    LET doc == fs[FileName(asset_id)]
        id == DictGet(doc.items, "asset_id")
        description == DictGet(doc.items, "description")
        content == DictGet(doc.items, "content")
        location == DictGet(doc.items, "location")
        latitude == DictGet(location[1], "latitude")
        longitude == DictGet(location[1], "longitude")
        timestamp == DictGet(doc.items, "timestamp")
        creator == DictGet(doc.items, "creator")
        publisher == DictGet(doc.items, "publisher")
    IN IF doc.text = "invalid" THEN Raised("JSONDecodeError")
       ELSE IF doc.text # "object" THEN Raised("TypeError")
       ELSE IF id = None THEN Raised("KeyError")
       ELSE IF AssetId_from_string(id[1]).status # "ok"
            THEN Raised("ValidationError")
       ELSE IF description = None \/ content = None \/ location = None
            THEN Raised("KeyError")
       ELSE IF latitude = None \/ longitude = None THEN Raised("KeyError")
       ELSE IF timestamp = None THEN Raised("KeyError")
       ELSE IF fromisoformat(timestamp[1]).raised # "none"
            THEN Raised(fromisoformat(timestamp[1]).raised)
       ELSE IF creator = None \/ publisher = None THEN Raised("KeyError")
       ELSE Returned(Some(
               [asset_id    |-> id[1],
                description |-> description[1],
                content     |-> content[1],
                location    |-> [latitude  |-> latitude[1],
                                 longitude |-> longitude[1]],
                timestamp   |-> fromisoformat(timestamp[1]).value[1],
                creator     |-> creator[1],
                publisher   |-> publisher[1]]))

\* link_transaction is not defined by FileSystemAssetStorage: the call runs
\* the body AssetStorage gives it, which is pass.
FileSystem_link_transaction(fs, asset_id, transaction_id) == fs

\* except (FileNotFoundError, json.JSONDecodeError, KeyError): return None
RetrieveCaught == {"FileNotFoundError", "JSONDecodeError", "KeyError"}

FileSystem_retrieve(fs, asset_id) ==
    LET tried == FileSystem_retrieve_try(fs, asset_id)
    IN IF tried.raised \in RetrieveCaught THEN Returned(None) ELSE tried

-----------------------------------------------------------------------------
(* storage.AlgorandStorage.record_asset and asset_create.create_asset.     *)

NoteDescriptionLimit == 100
AssetNameLimit == 32
UnitNameLimit == 8

\* s[:n]
Prefix(s, n) == SubSeq(s, 1, IF Len(s) < n THEN Len(s) ELSE n)

\* The note dict, serialised by json.dumps(separators=(',', ':')): the keys
\* in insertion order.
note_json(asset_id, asset_request) ==
    << <<"type", JsonStr("asset_registry")>>,
       <<"asset_id", JsonStr(asset_id)>>,
       <<"description", JsonStr(Prefix(asset_request.description, NoteDescriptionLimit))>>,
       <<"creator", JsonStr(asset_request.creator)>>,
       <<"publisher", JsonStr(asset_request.publisher)>>,
       <<"timestamp", JsonStr(isoformat(asset_request.timestamp))>> >>

\* A description longer than every limit of record_asset.
LongDescription ==
    "0123456789abcdefghijklmnopqrstuvwxyzABCDEFGHIJKLMNOPQRSTUVWXYZ" \o
    "0123456789abcdefghijklmnopqrstuvwxyzABCDEFGHIJKLMNOPQRSTUVWXYZ"

\* Description lengths at, below and above the limits, and the empty one.
DescriptionLengths == {0, 1, 7, 8, 9, 31, 32, 33, 99, 100, 101, 124}

\* The requests given to record_asset in SpecRecord.
RecordRequests ==
    {[r EXCEPT !.description = Prefix(LongDescription, n)] :
        r \in {q \in AssetUploadRequest :
                  /\ q.description = "First test asset"
                  /\ q.content = "Content of first asset"
                  /\ q.location = [latitude |-> 407128, longitude |-> -740060]},
        n \in DescriptionLengths}

\* Every note record_asset hashes, enumerated.
NoteMessages ==
    {note_json(generate_asset_id(r).value, r) : r \in UploadRequests}
        \cup {note_json(derive_asset_id(r).value, r) : r \in RecordRequests}

NoteTokenOrder == SetToSeq(Tokens(NoteMessages))

\* The unit name cut at the asset name's limit.
asset_config_txn_long_unit(asset_id, asset_request) ==
    [asset_name    |-> IF asset_request.description # ""
                       THEN Prefix(asset_request.description, AssetNameLimit)
                       ELSE "Asset",
     unit_name     |-> IF asset_request.description # ""
                       THEN Prefix(asset_request.description, AssetNameLimit)
                       ELSE "ASSET",
     total         |-> 1,
     decimals      |-> 0,
     metadata_hash |-> sha256_digest(NoteTokenOrder, note_json(asset_id, asset_request))]

\* The AssetConfigTxn record_asset hands to create_asset.
asset_config_txn(asset_id, asset_request) ==
    [asset_name    |-> IF asset_request.description # ""
                       THEN Prefix(asset_request.description, AssetNameLimit)
                       ELSE "Asset",
     unit_name     |-> IF asset_request.description # ""
                       THEN Prefix(asset_request.description, UnitNameLimit)
                       ELSE "ASSET",
     total         |-> 1,
     decimals      |-> 0,
     metadata_hash |-> sha256_digest(NoteTokenOrder, note_json(asset_id, asset_request))]

\* The transaction id algod returns for the n-th accepted transaction.
TxId(n) == "TX" \o ToString(n)

\* How create_asset can fail once a client exists: suggested_params cannot
\* reach the node, send_transaction is refused, wait_for_confirmation gives up.
FailureModes == {"unreachable", "rejected", "timeout"}

-----------------------------------------------------------------------------
(* The response models of models.py.  A pydantic model keeps the keyword   *)
(* arguments that are fields of its class and ignores every other one.     *)

AssetUploadResponseFields == {"success", "asset_id", "message"}

\* AssetUploadResponse(**kwargs): kwargs is a record of the keywords given.
AssetUploadResponse(kwargs) ==
    [f \in AssetUploadResponseFields |->
        IF f \in DOMAIN kwargs THEN kwargs[f] ELSE None]

AssetResponse(success, asset, message) ==
    [success |-> success, asset |-> asset, message |-> message]

-----------------------------------------------------------------------------
(* SpecDerive: generate_asset_id applied to pairs of requests.             *)

\* A caller with no upload in progress.
IdleCall ==
    [pc |-> "idle", request |-> None, asset_id |-> "", txid |-> None,
     prev |-> None, steps |-> <<>>, failure |-> "none", submitted |-> 0]

StoreInit ==
    /\ storage = <<>>
    /\ links = <<>>
    /\ ledger = <<>>
    /\ call = [c \in Callers |-> IdleCall]
    /\ response = None
    /\ saved = {}

\* Nothing was given to AssetId.from_string.
NoAssetIdInput == id_string = "" /\ id_object = None

\* No FileSystemAssetStorage was constructed and no directory written.
NoDirectory == files = <<>> /\ fs_instance = None /\ result = None

\* record_asset was given nothing.
NoRecordInput == record_request = None /\ record_txn = None

\* No HybridAssetStorage was constructed.
NoCoordinators == coordinators = <<>> /\ current = 0

InitDerive ==
    /\ StoreInit
    /\ NoAssetIdInput
    /\ NoDirectory
    /\ NoRecordInput
    /\ NoCoordinators
    /\ algod_client = None
    /\ reqA \in AssetUploadRequest
    /\ reqB \in AssetUploadRequest
    /\ idA = None
    /\ idB = None

DeriveA ==
    /\ idA = None
    /\ idA' = Some(generate_asset_id(reqA))
    /\ UNCHANGED <<storage, links, algod_client, ledger, call, response, saved,
                   reqA, reqB, idB, assetid_vars, fs_vars, notary_vars,
                   shared_vars>>

DeriveB ==
    /\ idB = None
    /\ idB' = Some(generate_asset_id(reqB))
    /\ UNCHANGED <<storage, links, algod_client, ledger, call, response, saved,
                   reqA, reqB, idA, assetid_vars, fs_vars, notary_vars,
                   shared_vars>>

NextDerive == DeriveA \/ DeriveB

SpecDerive == InitDerive /\ [][NextDerive]_vars

-----------------------------------------------------------------------------
(* Spec: POST /upload (routes.upload_asset -> utils.save_asset ->          *)
(* HybridAssetStorage.save_and_link), GET /assets and GET /assets/{id} on  *)
(* the module-level storage.  The handlers are coroutines that never       *)
(* await, so the event loop runs one request to its end before the next:   *)
(* a request starts only when no other is in progress.                     *)

derive_vars == <<reqA, reqB, idA, idB>>

\* HybridAssetStorage(): an empty InMemoryAssetStorage, and an
\* AlgorandStorage whose connection test passed or failed.
Init ==
    /\ StoreInit
    /\ NoAssetIdInput
    /\ NoDirectory
    /\ NoRecordInput
    /\ algod_client \in {None, Some("AlgodClient")}
    /\ coordinators = <<algod_client>>
    /\ current = 1
    /\ reqA = None
    /\ reqB = None
    /\ idA = None
    /\ idB = None

NoRequestInProgress == \A c \in Callers : call[c].pc = "idle"

\* An asset id the store is asked for although nothing derives it.
UnknownId == "00000000000000000000000000000000ffffffffffffffffffffffffffffffff"

KnownIds == {generate_asset_id(r).value : r \in UploadRequests}

\* save_asset reusing the identifier of the first record in the store.
SaveAsset_stale_id(c, asset_request) ==
    LET asset_id == IF storage = <<>> THEN generate_asset_id(asset_request).value
                    ELSE storage[1][1]
    IN /\ call[c].pc = "idle"
       /\ response' = None
       /\ storage' = InMemory_save(storage, asset_request, asset_id)
       /\ saved' = saved \cup {asset_id}
       /\ call' = [call EXCEPT ![c] =
              [IdleCall EXCEPT
                  !.pc = "record",
                  !.request = Some(asset_request),
                  !.asset_id = asset_id,
                  !.prev = InMemory_retrieve(storage, asset_id),
                  !.steps = <<"save">>]]
       /\ UNCHANGED <<links, algod_client, ledger, derive_vars,
                      assetid_vars, fs_vars, notary_vars, shared_vars>>

\* save_asset up to and including save_and_link's local_storage.save.
SaveAsset(c, asset_request) ==
    LET derived == generate_asset_id(asset_request)
        asset_id == derived.value
    IN /\ call[c].pc = "idle"
       /\ response' = None
       /\ IF derived.status = "ok"
          THEN /\ storage' = InMemory_save(storage, asset_request, asset_id)
               /\ saved' = saved \cup {asset_id}
               /\ call' = [call EXCEPT ![c] =
                      [IdleCall EXCEPT
                          !.pc = "record",
                          !.request = Some(asset_request),
                          !.asset_id = asset_id,
                          !.prev = InMemory_retrieve(storage, asset_id),
                          !.steps = <<"save">>]]
          ELSE /\ call' = [call EXCEPT ![c] =
                      [IdleCall EXCEPT
                          !.pc = "raised",
                          !.request = Some(asset_request),
                          !.failure = "ValidationError"]]
               /\ UNCHANGED <<storage, saved>>
       /\ UNCHANGED <<links, algod_client, ledger, derive_vars,
                   assetid_vars, fs_vars, notary_vars,
                   shared_vars>>

\* record_asset without a client, raising instead of returning None.
RecordAssetNoClient_raises(c) ==
    /\ call[c].pc = "record"
    /\ algod_client = None
    /\ call' = [call EXCEPT ![c].pc = "raised",
                            ![c].failure = "unavailable",
                            ![c].steps = Append(@, "record")]
    /\ UNCHANGED <<storage, links, algod_client, ledger, response, saved, derive_vars,
                   assetid_vars, fs_vars, notary_vars,
                   shared_vars>>

\* record_asset without a client, connecting again before it gives up.
RecordAssetNoClient_reconnects(c) ==
    /\ call[c].pc = "record"
    /\ algod_client = None
    /\ algod_client' = Some("AlgodClient")
    /\ UNCHANGED <<storage, links, ledger, call, response, saved, derive_vars,
                   assetid_vars, fs_vars, notary_vars,
                   shared_vars>>

\* record_asset without a client: prints a warning, returns None.
RecordAssetNoClient(c) ==
    /\ call[c].pc = "record"
    /\ algod_client = None
    /\ call' = [call EXCEPT ![c].pc = "link",
                            ![c].txid = None,
                            ![c].steps = Append(@, "record")]
    /\ UNCHANGED <<storage, links, algod_client, ledger, response, saved, derive_vars,
                   assetid_vars, fs_vars, notary_vars,
                   shared_vars>>

\* record_asset with a client, create_asset runs to its end: the transaction
\* is accepted and its id returned.
RecordAssetConfirmed(c) ==
    /\ call[c].pc = "record"
    /\ algod_client # None
    /\ Len(ledger) < MaxLedger
    /\ ledger' = Append(ledger, asset_config_txn(call[c].asset_id, call[c].request[1]))
    /\ call' = [call EXCEPT ![c].pc = "link",
                            ![c].txid = Some(TxId(Len(ledger) + 1)),
                            ![c].submitted = @ + 1,
                            ![c].steps = Append(@, "record")]
    /\ UNCHANGED <<storage, links, algod_client, response, saved, derive_vars,
                   assetid_vars, fs_vars, notary_vars,
                   shared_vars>>

\* create_asset raises and the local save is undone.
RecordAssetRaises_rollback(c, mode, accepted) ==
    /\ call[c].pc = "record"
    /\ algod_client # None
    /\ accepted => (mode = "timeout" /\ Len(ledger) < MaxLedger)
    /\ ledger' = IF accepted
                 THEN Append(ledger, asset_config_txn(call[c].asset_id, call[c].request[1]))
                 ELSE ledger
    /\ storage' = SelectSeq(storage, LAMBDA item : item[1] # call[c].asset_id)
    /\ call' = [call EXCEPT ![c].pc = "raised",
                            ![c].failure = mode,
                            ![c].submitted = IF mode = "timeout" THEN @ + 1 ELSE @,
                            ![c].steps = Append(@, "record")]
    /\ UNCHANGED <<links, algod_client, response, saved, derive_vars,
                   assetid_vars, fs_vars, notary_vars,
                   shared_vars>>

\* create_asset sending the transaction a second time after a timeout.
RecordAssetRaises_retries(c, mode, accepted) ==
    /\ call[c].pc = "record"
    /\ algod_client # None
    /\ accepted => (mode = "timeout" /\ Len(ledger) < MaxLedger)
    /\ ledger' = IF accepted
                 THEN Append(ledger, asset_config_txn(call[c].asset_id, call[c].request[1]))
                 ELSE ledger
    /\ call' = [call EXCEPT ![c].pc = "raised",
                            ![c].failure = mode,
                            ![c].submitted = IF mode = "timeout" THEN @ + 2 ELSE @,
                            ![c].steps = Append(@, "record")]
    /\ UNCHANGED <<storage, links, algod_client, response, saved, derive_vars,
                   assetid_vars, fs_vars, notary_vars,
                   shared_vars>>

\* create_asset raises, record_asset catches it and returns None, and
\* save_and_link goes on to its link step.
RecordAssetRaises_returns_none(c, mode, accepted) ==
    /\ call[c].pc = "record"
    /\ algod_client # None
    /\ accepted => (mode = "timeout" /\ Len(ledger) < MaxLedger)
    /\ ledger' = IF accepted
                 THEN Append(ledger, asset_config_txn(call[c].asset_id, call[c].request[1]))
                 ELSE ledger
    /\ call' = [call EXCEPT ![c].pc = "link",
                            ![c].txid = None,
                            ![c].failure = mode,
                            ![c].submitted = IF mode = "timeout" THEN @ + 1 ELSE @,
                            ![c].steps = Append(@, "record")]
    /\ UNCHANGED <<storage, links, algod_client, response, saved, derive_vars,
                   assetid_vars, fs_vars, notary_vars,
                   shared_vars>>

\* record_asset with a client, create_asset raises: nothing in record_asset
\* or save_and_link catches it.  After a timeout the transaction was sent
\* and the ledger may still accept it.
RecordAssetRaises(c, mode, accepted) ==
    /\ call[c].pc = "record"
    /\ algod_client # None
    /\ accepted => (mode = "timeout" /\ Len(ledger) < MaxLedger)
    /\ ledger' = IF accepted
                 THEN Append(ledger, asset_config_txn(call[c].asset_id, call[c].request[1]))
                 ELSE ledger
    /\ call' = [call EXCEPT ![c].pc = "raised",
                            ![c].failure = mode,
                            ![c].submitted = IF mode = "timeout" THEN @ + 1 ELSE @,
                            ![c].steps = Append(@, "record")]
    /\ UNCHANGED <<storage, links, algod_client, response, saved, derive_vars,
                   assetid_vars, fs_vars, notary_vars,
                   shared_vars>>

\* save_and_link's local_storage.link_transaction, then its return.
LinkTransaction(c) ==
    /\ call[c].pc = "link"
    /\ links' = InMemory_link_transaction(links, call[c].asset_id, call[c].txid)
    /\ call' = [call EXCEPT ![c].pc = "done",
                            ![c].steps = Append(@, "link")]
    /\ UNCHANGED <<storage, algod_client, ledger, response, saved, derive_vars,
                   assetid_vars, fs_vars, notary_vars,
                   shared_vars>>

\* save_asset returns (asset_id, transaction_id); upload_asset answers.
UploadReturns(c) ==
    /\ call[c].pc = "done"
    /\ response' = Some([op |-> "upload", success |-> TRUE,
                         asset_id |-> call[c].asset_id,
                         transaction_id |-> call[c].txid,
                         request |-> call[c].request,
                         body |-> Some(AssetUploadResponse(
                             [success |-> TRUE,
                              asset_id |-> Some(call[c].asset_id),
                              message |-> "Asset uploaded successfully",
                              transaction_id |-> call[c].txid]))])
    /\ call' = [call EXCEPT ![c] = IdleCall]
    /\ UNCHANGED <<storage, links, algod_client, ledger, saved, derive_vars,
                   assetid_vars, fs_vars, notary_vars,
                   shared_vars>>

\* The failed request's record removed from the store before the error is
\* answered.
UploadFails_discards(c) ==
    /\ call[c].pc = "raised"
    /\ response' = Some([op |-> "upload", success |-> FALSE,
                         asset_id |-> call[c].asset_id,
                         transaction_id |-> None,
                         request |-> call[c].request,
                         body |-> None])
    /\ storage' = SelectSeq(storage, LAMBDA item : item[1] # call[c].asset_id)
    /\ call' = [call EXCEPT ![c] = IdleCall]
    /\ UNCHANGED <<links, algod_client, ledger, saved, derive_vars,
                   assetid_vars, fs_vars, notary_vars, shared_vars>>

\* The exception leaves save_and_link, save_asset and upload_asset: the
\* request fails (HTTP 500).
UploadFails(c) ==
    /\ call[c].pc = "raised"
    /\ response' = Some([op |-> "upload", success |-> FALSE,
                         asset_id |-> call[c].asset_id,
                         transaction_id |-> None,
                         request |-> call[c].request,
                         body |-> None])
    /\ call' = [call EXCEPT ![c] = IdleCall]
    /\ UNCHANGED <<storage, links, algod_client, ledger, saved, derive_vars,
                   assetid_vars, fs_vars, notary_vars,
                   shared_vars>>

\* list that fills every absent reference in from the ledger.
ListAssets_reconciles ==
    /\ NoRequestInProgress
    /\ response' = Some([op |-> "list", assets |-> InMemory_list(storage)])
    /\ links' = [k \in DOMAIN links |->
                    IF links[k] = None THEN Some(TxId(Len(ledger) + 1))
                    ELSE links[k]]
    /\ UNCHANGED <<storage, algod_client, ledger, call, saved, derive_vars,
                   assetid_vars, fs_vars, notary_vars,
                   shared_vars>>

\* get_all_assets: storage.list().
ListAssets ==
    /\ NoRequestInProgress
    /\ response' = Some([op |-> "list", assets |-> InMemory_list(storage)])
    /\ UNCHANGED <<storage, links, algod_client, ledger, call, saved, derive_vars,
                   assetid_vars, fs_vars, notary_vars,
                   shared_vars>>

\* get_asset_by_id: storage.retrieve(asset_id).
GetAsset(asset_id) ==
    /\ NoRequestInProgress
    /\ response' = Some([op |-> "retrieve", asset_id |-> asset_id,
                         asset |-> InMemory_retrieve(storage, asset_id)])
    /\ UNCHANGED <<storage, links, algod_client, ledger, call, saved, derive_vars,
                   assetid_vars, fs_vars, notary_vars,
                   shared_vars>>

\* Strings GET /assets/{asset_id} is called with that are no AssetId: the
\* tests' nonexistent_id, uppercase hex, and 63 and 65 characters.
InvalidIdStrings ==
    {"nonexistent_id",
     "00000000000000000000000000000000FFFFFFFFFFFFFFFFFFFFFFFFFFFFFFFF",
     Prefix(UnknownId, AssetIdLength - 1),
     UnknownId \o "0"}

\* get_asset without its except clause: the ValidationError leaves the
\* handler.
get_asset_uncaught(asset_id) ==
    LET asset_id_obj == AssetId_from_string(asset_id)
        asset == InMemory_retrieve(storage, asset_id)
    IN /\ NoRequestInProgress
       /\ response' = Some(
             IF asset_id_obj.status # "ok"
             THEN [op |-> "get_asset", asset_id |-> asset_id,
                   calls |-> <<"from_string">>,
                   fault |-> asset_id_obj.status, body |-> None]
             ELSE [op |-> "get_asset", asset_id |-> asset_id,
                   calls |-> <<"from_string", "get_asset_by_id">>,
                   fault |-> "none",
                   body |-> Some(IF asset = None
                       THEN AssetResponse(FALSE, None, "Asset not found")
                       ELSE AssetResponse(TRUE, asset, "Asset retrieved successfully"))])
       /\ UNCHANGED <<storage, links, algod_client, ledger, call, saved, derive_vars,
                   assetid_vars, fs_vars, notary_vars,
                   shared_vars>>

\* routes.get_asset: AssetId.from_string, then get_asset_by_id; the
\* ValidationError of from_string is a ValueError and is answered with
\* "Invalid asset ID format" before the store is asked.
get_asset(asset_id) ==
    LET asset_id_obj == AssetId_from_string(asset_id)
        asset == InMemory_retrieve(storage, asset_id)
    IN /\ NoRequestInProgress
       /\ response' = Some(
             IF asset_id_obj.status # "ok"
             THEN [op |-> "get_asset", asset_id |-> asset_id,
                   calls |-> <<"from_string">>,
                   fault |-> "none",
                   body |-> Some(AssetResponse(FALSE, None, "Invalid asset ID format"))]
             ELSE [op |-> "get_asset", asset_id |-> asset_id,
                   calls |-> <<"from_string", "get_asset_by_id">>,
                   fault |-> "none",
                   body |-> Some(IF asset = None
                       THEN AssetResponse(FALSE, None, "Asset not found")
                       ELSE AssetResponse(TRUE, asset, "Asset retrieved successfully"))])
       /\ UNCHANGED <<storage, links, algod_client, ledger, call, saved, derive_vars,
                   assetid_vars, fs_vars, notary_vars,
                   shared_vars>>

Next ==
    \/ \E c \in Callers, r \in UploadRequests :
          NoRequestInProgress /\ SaveAsset(c, r)
    \/ \E c \in Callers : RecordAssetNoClient(c)
    \/ \E c \in Callers : RecordAssetConfirmed(c)
    \/ \E c \in Callers, mode \in FailureModes, accepted \in BOOLEAN :
          RecordAssetRaises(c, mode, accepted)
    \/ \E c \in Callers : LinkTransaction(c)
    \/ \E c \in Callers : UploadReturns(c)
    \/ \E c \in Callers : UploadFails(c)
    \/ ListAssets
    \/ \E id \in KnownIds \cup {UnknownId} : GetAsset(id)
    \/ \E id \in KnownIds \cup {UnknownId} \cup InvalidIdStrings : get_asset(id)

Spec == Init /\ [][Next]_vars

-----------------------------------------------------------------------------
(* SpecAssetId: AssetId.from_string applied to one string.                 *)

\* s with its i-th character replaced by ch.
ReplaceAt(s, i, ch) == SubSeq(s, 1, i - 1) \o ch \o SubSeq(s, i + 1, Len(s))

\* Characters outside a-f0-9, and one inside.
ForeignChars == {"A", "F", "g", " "}
HexChar == "7"

\* The strings given to AssetId.from_string: identifiers, an identifier
\* with one character replaced at any place, every prefix of an identifier,
\* an identifier with a character added in front or behind, and the strings
\* GET /assets/{asset_id} is called with.
CandidateStrings ==
    KnownIds \cup {UnknownId} \cup InvalidIdStrings
        \cup {ReplaceAt(UnknownId, i, ch) :
                 i \in 1..AssetIdLength, ch \in ForeignChars \cup {HexChar}}
        \cup {Prefix(UnknownId, n) : n \in 0..AssetIdLength}
        \cup {ch \o UnknownId : ch \in ForeignChars \cup {HexChar}}
        \cup {UnknownId \o ch : ch \in ForeignChars \cup {HexChar}}

InitAssetId ==
    /\ StoreInit
    /\ NoDirectory
    /\ NoRecordInput
    /\ NoCoordinators
    /\ algod_client = None
    /\ reqA = None
    /\ reqB = None
    /\ idA = None
    /\ idB = None
    /\ id_string \in CandidateStrings
    /\ id_object = None

\* AssetId.from_string(id_string)
from_string ==
    /\ id_object = None
    /\ id_object' = Some(AssetId_from_string(id_string))
    /\ UNCHANGED <<storage, links, algod_client, ledger, call, response, saved,
                   derive_vars, id_string, fs_vars, notary_vars,
                   shared_vars>>

NextAssetId == from_string

SpecAssetId == InitAssetId /\ [][NextAssetId]_vars

-----------------------------------------------------------------------------
(* SpecStore: the AssetStorage calls made on an InMemoryAssetStorage and,  *)
(* with the same arguments, on the methods of FileSystemAssetStorage over  *)
(* its directory, which writers other than save can leave corrupt files    *)
(* in.                                                                     *)

\* Files in the directory that are no record save wrote.
MaxCorruptFiles == 1

\* del d[key]
DictRemove(items, key) == SelectSeq(items, LAMBDA item : item[1] # key)

\* The texts a file for asset_id can hold that are no record of it: text
\* cut off before it was JSON, an array, a record without description, with
\* an asset_id that is no identifier, with a timestamp that is no datetime.
CorruptDocuments(asset_id) ==
    LET written == asset_data(Asset(CHOOSE r \in UploadRequests : TRUE, asset_id))
    IN {NotJson,
        JsonArray,
        JsonObject(DictRemove(written, "description")),
        JsonObject(DictSet(written, "asset_id", "not-an-asset-id")),
        JsonObject(DictSet(written, "timestamp", "not-a-timestamp"))}

\* File names other writers use: a record's, another .json, and a file
\* list does not look at.
StrayFile == "stray.json"
OtherFile == "README.txt"

CorruptWrites ==
    UNION {{<<FileName(id), doc>> : doc \in CorruptDocuments(id)} : id \in KnownIds}
        \cup {<<StrayFile, doc>> : doc \in CorruptDocuments(UnknownId)}
        \cup {<<OtherFile, NotJson>>}

CorruptFiles(fs) ==
    {name \in DOMAIN fs : \E w \in CorruptWrites : w[1] = name /\ w[2] = fs[name]}

\* InMemoryAssetStorage() and FileSystemAssetStorage(): empty stores.
InitStore ==
    /\ StoreInit
    /\ NoAssetIdInput
    /\ NoRecordInput
    /\ NoCoordinators
    /\ algod_client = None
    /\ reqA = None
    /\ reqB = None
    /\ idA = None
    /\ idB = None
    /\ files = <<>>
    /\ fs_instance = Some(Instantiate(FileSystemMethods))
    /\ result = None

\* save(asset_request, asset_id) on both stores.
StoreSave(asset_request, asset_id) ==
    /\ storage' = InMemory_save(storage, asset_request, asset_id)
    /\ saved' = saved \cup {asset_id}
    /\ files' = FileSystem_save(files, asset_request, asset_id)
    /\ result' = Some([op |-> "save", asset_id |-> asset_id,
                       request |-> Some(asset_request),
                       prev |-> InMemory_retrieve(storage, asset_id),
                       mem |-> InMemory_save_result(asset_id),
                       fs |-> FileSystem_save_result(asset_id)])
    /\ UNCHANGED <<links, algod_client, ledger, call, response, derive_vars,
                   assetid_vars, fs_instance, notary_vars,
                   shared_vars>>

\* list() on both stores.
StoreList(order) ==
    /\ result' = Some([op |-> "list", asset_id |-> "", request |-> None,
                       prev |-> None,
                       mem |-> Returned(InMemory_list(storage)),
                       fs |-> FileSystem_list(files, order)])
    /\ UNCHANGED <<storage, links, algod_client, ledger, call, response, saved,
                   derive_vars, assetid_vars, files, fs_instance,
                   notary_vars, shared_vars>>

\* retrieve(asset_id) on both stores.
StoreRetrieve(asset_id) ==
    /\ result' = Some([op |-> "retrieve", asset_id |-> asset_id,
                       request |-> None, prev |-> None,
                       mem |-> Returned(InMemory_retrieve(storage, asset_id)),
                       fs |-> FileSystem_retrieve(files, asset_id)])
    /\ UNCHANGED <<storage, links, algod_client, ledger, call, response, saved,
                   derive_vars, assetid_vars, files, fs_instance,
                   notary_vars, shared_vars>>

\* link_transaction(asset_id, transaction_id) on both stores.
StoreLinkTransaction(asset_id, transaction_id) ==
    /\ links' = InMemory_link_transaction(links, asset_id, transaction_id)
    /\ files' = FileSystem_link_transaction(files, asset_id, transaction_id)
    /\ result' = Some([op |-> "link_transaction", asset_id |-> asset_id,
                       request |-> None, prev |-> None,
                       mem |-> Returned(None), fs |-> Returned(None)])
    /\ UNCHANGED <<storage, algod_client, ledger, call, response, saved,
                   derive_vars, assetid_vars, fs_instance, notary_vars,
                   shared_vars>>

\* Another writer leaves a corrupt file in the directory.  No call has
\* returned since.
CorruptFile(name, doc) ==
    /\ Cardinality(CorruptFiles(files) \cup {name}) <= MaxCorruptFiles
    /\ files' = [n \in DOMAIN files \cup {name} |->
                    IF n = name THEN doc ELSE files[n]]
    /\ result' = None
    /\ UNCHANGED <<storage, links, algod_client, ledger, call, response, saved,
                   derive_vars, assetid_vars, fs_instance, notary_vars,
                   shared_vars>>

NextStore ==
    \/ \E r \in UploadRequests : StoreSave(r, generate_asset_id(r).value)
    \/ \E order \in ListdirOrders(files) : StoreList(order)
    \/ \E id \in KnownIds \cup {UnknownId} : StoreRetrieve(id)
    \/ \E id \in KnownIds : StoreLinkTransaction(id, Some(TxId(1)))
    \/ \E w \in CorruptWrites : CorruptFile(w[1], w[2])

SpecStore == InitStore /\ [][NextStore]_vars

-----------------------------------------------------------------------------
(* SpecRecord: what record_asset builds for one request, on a notary with  *)
(* a client.                                                               *)

InitRecord ==
    /\ StoreInit
    /\ NoAssetIdInput
    /\ NoDirectory
    /\ NoCoordinators
    /\ algod_client = Some("AlgodClient")
    /\ reqA = None
    /\ reqB = None
    /\ idA = None
    /\ idB = None
    /\ record_request \in {Some(r) : r \in RecordRequests}
    /\ record_txn = None

\* record_asset up to its call of create_asset: note_data and the
\* arguments of the transaction.
record_asset ==
    LET asset_request == record_request[1]
        asset_id == derive_asset_id(asset_request).value
    IN /\ record_txn = None
       /\ algod_client # None
       /\ record_txn' = Some([note_data |-> note_json(asset_id, asset_request),
                              txn |-> asset_config_txn(asset_id, asset_request)])
       /\ UNCHANGED <<storage, links, algod_client, ledger, call, response, saved,
                      derive_vars, assetid_vars, fs_vars, record_request,
                      shared_vars>>

NextRecord == record_asset

SpecRecord == InitRecord /\ [][NextRecord]_vars

\* ---------------------------------------------------------------------
\* Several HybridAssetStorage objects.  The default of __init__'s
\* local_storage parameter is evaluated once, when the class is defined, so
\* every coordinator constructed without a store holds the same
\* InMemoryAssetStorage; each has its own AlgorandStorage, whose
\* algod_client is None when the connection test of its construction failed.
\* ---------------------------------------------------------------------
Coordinators == 1..NumCoordinators

InitShared ==
    /\ StoreInit
    /\ NoAssetIdInput
    /\ NoDirectory
    /\ NoRecordInput
    /\ coordinators \in [Coordinators -> {None, Some("AlgodClient")}]
    /\ current \in Coordinators
    /\ algod_client = coordinators[current]
    /\ reqA = None
    /\ reqB = None
    /\ idA = None
    /\ idB = None

\* The next save_and_link is called on coordinator k: its blockchain_storage
\* is the notary of the call, its local_storage the shared store.
CallThrough(k) ==
    /\ NoRequestInProgress
    /\ k # current
    /\ current' = k
    /\ algod_client' = coordinators[k]
    /\ UNCHANGED <<storage, links, ledger, call, response, saved, coordinators,
                   derive_vars, assetid_vars, fs_vars, notary_vars>>

\* The requests sent through the coordinators: one per identifier, as the
\* description has no part in the link table.
SharedRequests == {r \in UploadRequests : r.description = "First test asset"}

NextShared ==
    \/ \E k \in Coordinators : CallThrough(k)
    \/ \E c \in Callers, r \in SharedRequests :
          NoRequestInProgress /\ SaveAsset(c, r)
    \/ \E c \in Callers : RecordAssetNoClient(c)
    \/ \E c \in Callers : RecordAssetConfirmed(c)
    \/ \E c \in Callers, mode \in FailureModes, accepted \in BOOLEAN :
          RecordAssetRaises(c, mode, accepted)
    \/ \E c \in Callers : LinkTransaction(c)
    \/ \E c \in Callers : UploadReturns(c)
    \/ \E c \in Callers : UploadFails(c)

SpecShared == InitShared /\ [][NextShared]_vars

-----------------------------------------------------------------------------
(* Properties.                                                             *)

SaveDone(c) == call[c].steps # <<>>
RequestOf(c) == call[c].request[1]

\* C1: when the ledger write fails at call time, record_asset returns None
\* and does not raise, so save_and_link returns None for the reference and
\* the upload completes normally.
C1_LedgerFailureReturnsAbsent ==
    /\ \A c \in Callers :
          call[c].failure \in FailureModes =>
              /\ call[c].pc \in {"link", "done"}
              /\ call[c].txid = None
    /\ (response # None /\ response[1].op = "upload") => response[1].success

\* C2: with no ledger client, an upload does not raise and ends with the
\* identifier generate_asset_id derives for the request, valid as an AssetId,
\* with an absent transaction reference, and retrieve of that identifier
\* returns the asset built from the request.
C2_LedgerUnavailableStillSaves ==
    algod_client = None =>
        /\ \A c \in Callers : call[c].pc # "raised"
        /\ \A c \in Callers :
              call[c].pc = "done" =>
                  /\ call[c].asset_id = generate_asset_id(RequestOf(c)).value
                  /\ AssetIdValid(call[c].asset_id)
                  /\ call[c].txid = None
                  /\ InMemory_retrieve(storage, call[c].asset_id)
                        = Some(Asset(RequestOf(c), call[c].asset_id))
        /\ (response # None /\ response[1].op = "upload") =>
              /\ response[1].success
              /\ response[1].transaction_id = None
              /\ InMemory_retrieve(storage, response[1].asset_id) # None

C2_Witness ==
    /\ algod_client = None
    /\ \E c \in Callers : call[c].pc = "done"

\* C3: whatever notarization did (a reference, None, or an exception of the
\* ledger client), the asset the call saved is stored and retrievable for
\* the rest of the call and after it has ended.
C3_LocalSaveSurvivesLedgerStep ==
    /\ \A c \in Callers :
          SaveDone(c) =>
              InMemory_retrieve(storage, call[c].asset_id)
                  = Some(Asset(RequestOf(c), call[c].asset_id))
    /\ (response # None /\ response[1].op = "upload") =>
          InMemory_retrieve(storage, response[1].asset_id) # None

C3_Witness ==
    \E c \in Callers :
        /\ call[c].pc = "raised"
        /\ call[c].failure \in FailureModes
        /\ InMemory_retrieve(storage, call[c].asset_id) # None

\* C4: every save_and_link call performs local save, notarization and
\* link_transaction, in this order, the link also when the reference is
\* absent; the ledger is not written before the local save.
C4_SaveRecordLinkInEveryCall ==
    \A c \in Callers :
        /\ call[c].pc \in {"done", "raised"} =>
              call[c].steps = <<"save", "record", "link">>
        /\ call[c].submitted > 0 => (SaveDone(c) /\ call[c].steps[1] = "save")

\* C5 (as stated): a record stored under an identifier is the record
\* retrieved under it in every later state.
C5_AssetNeverMutated ==
    [][\A i \in 1..Len(storage) :
          InMemory_retrieve(storage', storage[i][1]) = Some(storage[i][2])]_vars

\* C5 (amended): a record stored under an identifier stays stored and keeps
\* its identifier, content, location, timestamp, creator and publisher in
\* every later state; only its description can be replaced.
C5_OnlyDescriptionReplaced ==
    [][\A i \in 1..Len(storage) :
          LET later == InMemory_retrieve(storage', storage[i][1])
          IN /\ later # None
             /\ [later[1] EXCEPT !.description = storage[i][2].description]
                   = storage[i][2]]_vars

C5_Witness ==
    \E c \in Callers :
        /\ call[c].pc = "record"
        /\ call[c].prev # None
        /\ call[c].prev[1].description # RequestOf(c).description
        /\ InMemory_retrieve(storage, call[c].asset_id)[1].description
              = RequestOf(c).description

BothDerived == idA # None /\ idB # None

\* C6: two requests that differ only in description get the same identifier.
C6_DescriptionNotHashed ==
    (BothDerived /\ [reqA EXCEPT !.description = reqB.description] = reqB)
        => idA[1].value = idB[1].value

C6_Witness ==
    /\ BothDerived
    /\ reqA.description # reqB.description
    /\ [reqA EXCEPT !.description = reqB.description] = reqB

HashedFields(r) ==
    <<r.content, r.location.latitude, r.location.longitude, r.timestamp,
      r.creator, r.publisher>>

\* C8: two requests that differ in content, latitude, longitude, timestamp,
\* creator or publisher get different identifiers.
C8_HashedFieldsSeparate ==
    (BothDerived /\ HashedFields(reqA) # HashedFields(reqB))
        => idA[1].value # idB[1].value

C8_Witness ==
    /\ BothDerived
    /\ reqA.creator # reqB.creator
    /\ [reqA EXCEPT !.creator = reqB.creator] = reqB

\* C9: after save(x, derive(x)), retrieve(derive(x)) returns an Asset whose
\* identifier is derive(x) and whose description, content, location,
\* timestamp, creator and publisher are those of x.
C9_SaveRetrieveRoundTrip ==
    \A c \in Callers :
        call[c].pc = "record" =>
            LET x == RequestOf(c)
                found == InMemory_retrieve(storage, generate_asset_id(x).value)
            IN /\ found # None
               /\ found[1].asset_id = generate_asset_id(x).value
               /\ found[1].description = x.description
               /\ found[1].content = x.content
               /\ found[1].location = x.location
               /\ found[1].timestamp = x.timestamp
               /\ found[1].creator = x.creator
               /\ found[1].publisher = x.publisher

C9_Witness ==
    \E c \in Callers : call[c].pc = "record" /\ call[c].prev = None

\* C10: list() returns exactly one summary per distinct identifier saved
\* (none when nothing was saved), each with the description stored under its
\* identifier.
C10_ListOneSummaryPerIdentifier ==
    LET summaries == InMemory_list(storage)
    IN /\ Len(summaries) = Cardinality(saved)
       /\ {summaries[i].asset_id : i \in 1..Len(summaries)} = saved
       /\ \A i \in 1..Len(summaries) :
             LET found == InMemory_retrieve(storage, summaries[i].asset_id)
             IN found # None /\ found[1].description = summaries[i].description
       /\ (response # None /\ response[1].op = "list") =>
             response[1].assets = summaries

C10_Witness ==
    /\ response # None
    /\ response[1].op = "list"
    /\ Len(response[1].assets) = 2
    /\ Cardinality(saved) = 2

\* C11: retrieve of an identifier under which nothing was ever saved returns
\* None, in every state of the store, and so does get_asset_by_id.
C11_RetrieveUnknownReturnsNone ==
    /\ \A id \in KnownIds \cup {UnknownId} :
          id \notin saved => InMemory_retrieve(storage, id) = None
    /\ (response # None /\ response[1].op = "retrieve"
            /\ response[1].asset_id \notin saved) => response[1].asset = None

C11_Witness ==
    /\ response # None
    /\ response[1].op = "retrieve"
    /\ response[1].asset_id \notin saved
    /\ saved # {}

\* C14: a save_and_link call submits to the ledger at most once, whether the
\* submission succeeds or fails; every step adds at most one transaction to
\* the ledger, and only the notarization step of a call adds one.
C14_AtMostOneLedgerWritePerCall ==
    [][/\ \A c \in Callers : call'[c].submitted <= 1
       /\ Len(ledger') <= Len(ledger) + 1
       /\ ledger' # ledger =>
             \E c \in Callers :
                 call[c].pc = "record" /\ call'[c].pc \in {"link", "raised"}]_vars

C14_Witness ==
    \E c \in Callers :
        /\ call[c].pc = "raised"
        /\ call[c].failure = "timeout"
        /\ call[c].submitted = 1

\* C15: a notary constructed without a client never gets one; each of its
\* record_asset calls returns None, raises nothing and submits nothing.
C15_NoClientForLifetime ==
    [][algod_client = None =>
          /\ algod_client' = None
          /\ ledger' = ledger
          /\ \A c \in Callers :
                /\ call'[c].submitted = 0
                /\ call[c].pc = "record" =>
                      /\ call'[c].pc \in {"record", "link"}
                      /\ call'[c].txid = None]_vars

C15_Witness ==
    /\ algod_client = None
    /\ DOMAIN links # {}
    /\ \E c \in Callers : call[c].pc = "link" /\ call[c].txid = None

\* C17: GET /assets/{asset_id} never ends in a server fault; for a string
\* that is no 64-hex identifier it answers success=false, asset=null without
\* asking the store; for an identifier it answers success=true with the
\* stored asset exactly when one is stored under it, and success=false,
\* asset=null otherwise.
C17_GetAssetAnswers ==
    (response # None /\ response[1].op = "get_asset") =>
        LET r == response[1]
            stored == InMemory_retrieve(storage, r.asset_id)
        IN /\ r.fault = "none"
           /\ r.body # None
           /\ r.asset_id \in InvalidIdStrings =>
                 /\ r.body[1].success = FALSE
                 /\ r.body[1].asset = None
                 /\ r.calls = <<"from_string">>
           /\ r.asset_id \notin InvalidIdStrings =>
                 /\ r.body[1].success = (stored # None)
                 /\ r.body[1].asset = stored
           /\ r.body[1].success = (r.body[1].asset # None)

C17_Witness ==
    /\ response # None
    /\ response[1].op = "get_asset"
    /\ response[1].asset_id \in InvalidIdStrings
    /\ storage # <<>>

\* C18: when save_asset has returned, the body of the POST /upload response
\* has success=true, the asset_id generate_asset_id derives for the request,
\* and a transaction_id equal to the reference save_and_link returned (a
\* body without the field carries no reference).
C18_UploadResponseCarriesReference ==
    (response # None /\ response[1].op = "upload" /\ response[1].success) =>
        /\ response[1].body # None
        /\ LET body == response[1].body[1]
           IN /\ body.success = TRUE
              /\ body.asset_id
                    = Some(generate_asset_id(response[1].request[1]).value)
              /\ (IF "transaction_id" \in DOMAIN body
                  THEN body["transaction_id"] ELSE None)
                    = response[1].transaction_id

\* C16: AssetId.from_string fails validation for every string that is not
\* exactly 64 characters of 0-9a-f, and for every string that is it succeeds
\* with that string as the value.
C16_AssetIdValidation ==
    id_object # None =>
        LET conforming ==
                /\ Len(id_string) = 64
                /\ \A i \in 1..Len(id_string) :
                      SubSeq(id_string, i, i) \in
                          {"0", "1", "2", "3", "4", "5", "6", "7",
                           "8", "9", "a", "b", "c", "d", "e", "f"}
        IN /\ conforming =>
                 /\ id_object[1].status = "ok"
                 /\ id_object[1].value = id_string
           /\ ~conforming => id_object[1].status = "ValidationError"

C16_Witness ==
    /\ id_object # None
    /\ id_object[1].status = "ValidationError"
    /\ Len(id_string) = 64
    /\ SubSeq(id_string, 64, 64) = "F"

\* C12: InMemoryAssetStorage.save(request, id) returns id.
C12_InMemorySaveReturnsId ==
    (result # None /\ result[1].op = "save") =>
        /\ result[1].mem.raised = "none"
        /\ result[1].mem.value = Some(result[1].asset_id)

\* C13: a save at an identifier that already has a record replaces it: the
\* store then retrieves the asset built from the request just saved, holds
\* as many records as before, and holds the records of every other
\* identifier as before; in the dict and in the directory alike.
C13_SaveLastWriteWins ==
    [][(result' # None /\ result'[1].op = "save") =>
          LET id == result'[1].asset_id
              latest == Asset(result'[1].request[1], id)
          IN /\ InMemory_retrieve(storage, id) # None =>
                   /\ InMemory_retrieve(storage', id) = Some(latest)
                   /\ Len(storage') = Len(storage)
                   /\ \A k \in DictKeys(storage) \ {id} :
                         InMemory_retrieve(storage', k)
                             = InMemory_retrieve(storage, k)
             /\ FileName(id) \in DOMAIN files =>
                   /\ FileSystem_retrieve(files', id) = Returned(Some(latest))
                   /\ DOMAIN files' = DOMAIN files
                   /\ \A name \in DOMAIN files \ {FileName(id)} :
                         files'[name] = files[name]]_vars

C13_Witness ==
    /\ result # None
    /\ result[1].op = "save"
    /\ result[1].prev # None
    /\ result[1].prev[1].description # result[1].request[1].description
    /\ Len(storage) = 2
    /\ Cardinality(DOMAIN files) >= 2

\* C19: FileSystemAssetStorage can be constructed and used where
\* InMemoryAssetStorage is; after the same calls, with no file written by
\* anyone else, none of its calls raises, its retrieve returns what the
\* in-memory retrieve returns, and its list the same set of summaries.
C19_StoresInterchangeable ==
    /\ fs_instance # None => fs_instance[1] = Instantiate(InMemoryMethods)
    /\ (result # None /\ CorruptFiles(files) = {}) =>
          LET mem == result[1].mem
              fs == result[1].fs
          IN /\ fs.raised = mem.raised
             /\ result[1].op = "retrieve" => fs.value = mem.value
             /\ result[1].op = "list" =>
                   {fs.value[i] : i \in 1..Len(fs.value)}
                       = {mem.value[i] : i \in 1..Len(mem.value)}

\* C20: list() on a directory never raises, whatever corrupt files are in
\* it, and returns the summary of every record save wrote that is still in
\* the directory.
C20_ListSkipsCorruptRecords ==
    (result # None /\ result[1].op = "list") =>
        LET fs == result[1].fs
        IN /\ fs.raised = "none"
           /\ \A r \in UploadRequests, id \in KnownIds :
                 (/\ FileName(id) \in DOMAIN files
                  /\ files[FileName(id)] = JsonObject(asset_data(Asset(r, id))))
                     => \E i \in 1..Len(fs.value) :
                            fs.value[i] = [asset_id |-> id,
                                           description |-> r.description]

\* C21: retrieve on the directory never raises, and returns None when the
\* identifier's file is missing or is a corrupt file.
C21_RetrieveCorruptReturnsNone ==
    (result # None /\ result[1].op = "retrieve") =>
        LET fs == result[1].fs
            name == FileName(result[1].asset_id)
        IN /\ fs.raised = "none"
           /\ (name \notin DOMAIN files \/ name \in CorruptFiles(files)) =>
                 fs.value = None

\* The entry of the link table for an identifier: None when it has none,
\* else the Optional reference linked.
LinkEntry(lk, asset_id) ==
    IF asset_id \in DOMAIN lk THEN Some(lk[asset_id]) ELSE None

\* C22: the reference linked to an identifier changes only in the link step
\* of a save_and_link call for that identifier, which sets it to what that
\* call's notarization returned; so an absent reference stays absent in
\* every step that is not such a link step.
C22_LinkChangesOnlyInLinkStep ==
    [][\A id \in KnownIds \cup {UnknownId} :
          LinkEntry(links', id) # LinkEntry(links, id) =>
              \E c \in Callers :
                  /\ call[c].pc = "link"
                  /\ call'[c].pc = "done"
                  /\ call[c].asset_id = id
                  /\ LinkEntry(links', id) = Some(call[c].txid)]_vars

C22_Witness ==
    /\ response # None
    /\ response[1].op = "upload"
    /\ \E id \in DOMAIN links :
          /\ links[id] = None
          /\ response[1].asset_id # id

C24_LinkedReferenceMatchesRecord ==
    NoRequestInProgress =>
        \A i \in 1..Len(storage) :
            LET id == storage[i][1]
                asset == storage[i][2]
            IN (id \in DOMAIN links /\ links[id] # None) =>
                   \E n \in 1..Len(ledger) :
                       /\ TxId(n) = links[id][1]
                       /\ ledger[n].metadata_hash
                             = sha256_digest(NoteTokenOrder, note_json(id, asset))

\* The request a stored asset was built from.
RequestOfAsset(asset) ==
    [description |-> asset.description,
     content     |-> asset.content,
     location    |-> asset.location,
     timestamp   |-> asset.timestamp,
     creator     |-> asset.creator,
     publisher   |-> asset.publisher]

\* C25: every record of the store is kept under the identifier that is its
\* asset_id field and that generate_asset_id derives from its content,
\* location, timestamp, creator and publisher.
C25_ContentAddressIntegrity ==
    \A i \in 1..Len(storage) :
        /\ storage[i][2].asset_id = storage[i][1]
        /\ generate_asset_id(RequestOfAsset(storage[i][2])).status = "ok"
        /\ generate_asset_id(RequestOfAsset(storage[i][2])).value = storage[i][1]

C25_Witness ==
    /\ Len(storage) = 2
    /\ storage[1][2].content # storage[2][2].content
    /\ storage[1][2].description # storage[2][2].description
    /\ NoRequestInProgress

\* C26: every identifier with an entry in the link table has a stored
\* asset, also in and after a call that ends with an error of the ledger
\* step.
C26_LinkedIdentifiersAreStored ==
    DOMAIN links \subseteq DictKeys(storage)

C26_Witness ==
    \E c \in Callers :
        /\ call[c].pc = "raised"
        /\ call[c].failure \in FailureModes
        /\ call[c].asset_id \in DOMAIN links

\* C28: a record the store retrieves is retrieved in every later state, and
\* the number of records never decreases.
C28_StoredRecordsStay ==
    [][/\ Len(storage') >= Len(storage)
       /\ \A id \in KnownIds \cup {UnknownId} :
             InMemory_retrieve(storage, id) # None =>
                 InMemory_retrieve(storage', id) # None]_vars

C28_Witness ==
    /\ Len(storage) = 2
    /\ response # None
    /\ response[1].op = "upload"
    /\ ~response[1].success
    /\ InMemory_retrieve(storage, response[1].asset_id) # None

\* C27 as stated: a reference that is linked and not absent is never
\* replaced by an absent one, whichever coordinator of the store the call
\* goes through.
C27_LinkNeverBecomesAbsent ==
    [][\A id \in KnownIds :
          (LinkEntry(links, id) # None /\ LinkEntry(links, id)[1] # None) =>
              (LinkEntry(links', id) # None /\ LinkEntry(links', id)[1] # None)]_vars

\* C27 amended: a linked, non-absent reference is replaced by an absent one
\* only in the link step of a save_and_link for that identifier through a
\* coordinator whose notary has no client; through a coordinator with a
\* client the reference stays non-absent, and no step removes the entry.
C27_LinkAbsentOnlyWithoutClient ==
    [][\A id \in KnownIds :
          (LinkEntry(links, id) # None /\ LinkEntry(links, id)[1] # None) =>
              /\ LinkEntry(links', id) # None
              /\ LinkEntry(links', id)[1] = None =>
                     /\ coordinators[current] = None
                     /\ algod_client = None
                     /\ \E c \in Callers :
                           /\ call[c].pc = "link"
                           /\ call[c].asset_id = id
                           /\ call[c].txid = None]_vars

\* An identifier notarized on the ledger through one coordinator whose link
\* is absent after a call through another, both coordinators being in use.
C27_Witness ==
    /\ NoRequestInProgress
    /\ \E k \in Coordinators : coordinators[k] # None
    /\ coordinators[current] = None
    /\ \E id \in KnownIds :
          /\ LinkEntry(links, id) = Some(None)
          /\ \E n \in 1..Len(ledger), r \in SharedRequests :
                /\ generate_asset_id(r).value = id
                /\ ledger[n] = asset_config_txn(id, r)
          /\ response # None
          /\ response[1].op = "upload"
          /\ response[1].success
          /\ response[1].asset_id = id

====
